---- MODULE Spec2Model ----
(***************************************************************************)
(* The JSON-to-flat-record routines of the repository:                     *)
(*   scrapeZillow5.py   parse_and_save_to_excel                            *)
(*   Zillowscrape2.py   parse_and_save_to_excel                            *)
(*   zillowtoexcel.py   parse_zillow_blob_to_excel                         *)
(* One run of the routine is a behaviour: Init draws the script and its    *)
(* arguments, each action is one statement (or one loop iteration) of the  *)
(* routine, and the except clause is an action of its own.                 *)
(*                                                                         *)
(* Python values are tagged records.  A str is a sequence of one-character *)
(* strings; a dict is a sequence of <<key, value>> pairs in insertion      *)
(* order; a str holding the serialization of a JSON document d is          *)
(* [t |-> "text", doc |-> d].                                              *)
(***************************************************************************)
EXTENDS Integers, Sequences, FiniteSets, TLC

VARIABLES
    script,         \* which file's routine runs
    raw_json_str,   \* argument: the blob
    input_address,  \* argument: the address (scrapeZillow5, Zillowscrape2)
    pc,             \* position in the routine
    data,           \* json.loads(raw_json_str)
    page_props,     \* data["props"]["pageProps"]
    cache_str,      \* the gdpClientCache string
    cache_data,     \* json.loads(cache_str)
    scan,           \* number of cache entries the for loop has visited
    prop,           \* the property record (property_info in zillowtoexcel)
    report,         \* the dict being filled (flat_data in zillowtoexcel)
    reso,           \* prop["resoFacts"]
    reso_i,         \* number of resoFacts items the for loop has visited
    other_facts,    \* reso["otherFacts"]
    other_i,        \* number of otherFacts items the for loop has visited
    exc,            \* the exception in flight inside the try block
    stdout,         \* the lines printed
    written         \* the rows handed to DataFrame.to_excel

vars == <<script, raw_json_str, input_address, pc, data, page_props, cache_str,
          cache_data, scan, prop, report, reso, reso_i, other_facts, other_i,
          exc, stdout, written>>

(***************************************************************************)
(* Python values                                                           *)
(***************************************************************************)
Chars(s) == [i \in 1..Len(s) |-> SubSeq(s, i, i)]

None == [t |-> "null"]
Num(n) == [t |-> "num", v |-> n]
Bool(b) == [t |-> "bool", v |-> b]
Str(s) == [t |-> "str", v |-> Chars(s)]
StrOf(cs) == [t |-> "str", v |-> cs]
List(l) == [t |-> "list", v |-> l]
Dict(pairs) == [t |-> "obj", v |-> pairs]
Text(d) == [t |-> "text", doc |-> d]
Unset == [t |-> "unset"]

IsDict(x) == x.t = "obj"
IsList(x) == x.t = "list"
IsStr(x) == x.t \in {"str", "text"}

\* type(x).__name__, as it appears in an exception message
TypeName(x) ==
    CASE x.t = "null" -> "NoneType"
      [] x.t = "num"  -> "int"
      [] x.t = "bool" -> "bool"
      [] x.t = "str"  -> "str"
      [] x.t = "text" -> "str"
      [] x.t = "list" -> "list"
      [] x.t = "obj"  -> "dict"

\* bool(x)
Truthy(x) ==
    CASE x.t = "null" -> FALSE
      [] x.t = "num"  -> x.v # 0
      [] x.t = "bool" -> x.v
      [] x.t = "str"  -> x.v # <<>>
      [] x.t = "text" -> TRUE
      [] x.t = "list" -> x.v # <<>>
      [] x.t = "obj"  -> x.v # <<>>

\* an evaluation either yields a value or raises
Ok(v) == [ok |-> TRUE, val |-> v]
Raise(type, arg) == [ok |-> FALSE, exc |-> [type |-> type, arg |-> arg]]
NoExc == [type |-> "none", arg |-> <<>>]

\* k in d, for a dict d
HasKey(d, k) == \E i \in 1..Len(d.v) : d.v[i][1] = k

\* d[k], for a dict d that has k
Item(d, k) == d.v[CHOOSE i \in 1..Len(d.v) : d.v[i][1] = k][2]

\* x.get(k, default): AttributeError unless x is a dict
Get(x, k, default) ==
    IF ~IsDict(x) THEN Raise("AttributeError", <<TypeName(x), "get">>)
    ELSE IF HasKey(x, Chars(k)) THEN Ok(Item(x, Chars(k)))
    ELSE Ok(default)

\* x.get(k), on a dict
GetOrNone(x, k) == IF HasKey(x, Chars(k)) THEN Item(x, Chars(k)) ELSE None

\* d[k] = v with an existing key moved to the end
SetItemMovesToEnd(pairs, k, v) ==
    Append(SelectSeq(pairs, LAMBDA pr : pr[1] # k), <<k, v>>)

\* d[k] = v on the pair sequence of a dict: an existing key keeps its place
SetItem(pairs, k, v) ==
    IF \E i \in 1..Len(pairs) : pairs[i][1] = k
    THEN [i \in 1..Len(pairs) |-> IF pairs[i][1] = k THEN <<k, v>> ELSE pairs[i]]
    ELSE Append(pairs, <<k, v>>)

RECURSIVE Update(_, _)
\* d.update(more), on pair sequences
Update(pairs, more) ==
    IF more = <<>> THEN pairs
    ELSE Update(SetItem(pairs, Head(more)[1], Head(more)[2]), Tail(more))

RECURSIVE Join(_, _)
\* sep.join(parts), on character sequences
Join(sep, parts) ==
    IF parts = <<>> THEN <<>>
    ELSE IF Len(parts) = 1 THEN parts[1]
    ELSE parts[1] \o sep \o Join(sep, Tail(parts))

Digit(d) == <<"0", "1", "2", "3", "4", "5", "6", "7", "8", "9">>[d + 1]

RECURSIVE Numeral(_)
\* str(n) for an int n >= 0
Numeral(n) == IF n < 10 THEN <<Digit(n)>> ELSE Numeral(n \div 10) \o <<Digit(n % 10)>>

RECURSIVE PyRepr(_)
\* repr(x); str(x) differs from it on a str only
PyRepr(x) ==
    CASE x.t = "null" -> Chars("None")
      [] x.t = "num"  -> Numeral(x.v)
      [] x.t = "bool" -> IF x.v THEN Chars("True") ELSE Chars("False")
      [] x.t = "str"  -> <<"'">> \o x.v \o <<"'">>
      [] x.t = "list" ->
            <<"[">> \o Join(Chars(", "), [i \in 1..Len(x.v) |-> PyRepr(x.v[i])]) \o <<"]">>
      [] x.t = "obj"  ->
            <<"{">> \o Join(Chars(", "),
                           [i \in 1..Len(x.v) |->
                               <<"'">> \o x.v[i][1] \o <<"'">> \o Chars(": ")
                                   \o PyRepr(x.v[i][2])])
                  \o <<"}">>

\* str(x)
PyStr(x) == IF x.t = "str" THEN x.v ELSE PyRepr(x)

IsNumeral(cs) == cs # <<>> /\ \A i \in 1..Len(cs) : \E d \in 0..9 : cs[i] = Digit(d)

RECURSIVE NumeralValue(_)
NumeralValue(cs) ==
    IF cs = <<>> THEN 0
    ELSE 10 * NumeralValue(SubSeq(cs, 1, Len(cs) - 1))
         + (CHOOSE d \in 0..9 : cs[Len(cs)] = Digit(d))

\* json.loads(s): a serialized document decodes to the document, a str
\* written out character by character decodes when it is one of the literals
\* below and is a JSONDecodeError otherwise, a non-str is a TypeError
JsonLoads(s) ==
    CASE s.t = "text" -> Ok(s.doc)
      [] s.t = "str" ->
            IF s.v = Chars("{}") THEN Ok(Dict(<<>>))
            ELSE IF s.v = Chars("[]") THEN Ok(List(<<>>))
            ELSE IF s.v = Chars("null") THEN Ok(None)
            ELSE IF s.v = Chars("true") THEN Ok(Bool(TRUE))
            ELSE IF s.v = Chars("false") THEN Ok(Bool(FALSE))
            ELSE IF IsNumeral(s.v) /\ (Len(s.v) = 1 \/ s.v[1] # "0")
                 THEN Ok(Num(NumeralValue(s.v)))
            ELSE Raise("JSONDecodeError", s.v)
      [] OTHER -> Raise("TypeError", <<"the JSON object must be str", TypeName(s)>>)

(***************************************************************************)
(* Text: the regular expressions and str methods the routines use          *)
(***************************************************************************)
UpperChars == Chars("ABCDEFGHIJKLMNOPQRSTUVWXYZ")
LowerChars == Chars("abcdefghijklmnopqrstuvwxyz")
DigitChars == Chars("0123456789")
SpaceChars == {" ", "\t", "\n", "\r"}

InSeq(c, cs) == \E i \in 1..Len(cs) : cs[i] = c

\* the character class [A-Z]
IsUpper(c) == InSeq(c, UpperChars)
IsLower(c) == InSeq(c, LowerChars)

ToUpper(c) == IF IsLower(c) THEN UpperChars[CHOOSE i \in 1..26 : LowerChars[i] = c] ELSE c
ToLower(c) == IF IsUpper(c) THEN LowerChars[CHOOSE i \in 1..26 : UpperChars[i] = c] ELSE c

\* re.sub(r'(?<!^)(?=[A-Z])', ' ', s): a space goes in front of every
\* upper-case letter that is not at the start of the string
SpaceBeforeCapitals(cs) ==
    LET Piece(i) == IF i > 1 /\ IsUpper(cs[i]) THEN <<" ", cs[i]>> ELSE <<cs[i]>>
    IN  Join(<<>>, [i \in 1..Len(cs) |-> Piece(i)])

RECURSIVE LStrip(_)
LStrip(cs) == IF cs # <<>> /\ Head(cs) \in SpaceChars THEN LStrip(Tail(cs)) ELSE cs

RECURSIVE RStrip(_)
RStrip(cs) ==
    IF cs # <<>> /\ cs[Len(cs)] \in SpaceChars THEN RStrip(SubSeq(cs, 1, Len(cs) - 1)) ELSE cs

\* s.strip()
Strip(cs) == RStrip(LStrip(cs))

\* the first character upper-cased, the others left as they are
CapitalizeFirstOnly(cs) ==
    [i \in 1..Len(cs) |-> IF i = 1 THEN ToUpper(cs[i]) ELSE cs[i]]

\* s.capitalize(): the first character upper-cased, every other one lower-cased
Capitalize(cs) ==
    [i \in 1..Len(cs) |-> IF i = 1 THEN ToUpper(cs[i]) ELSE ToLower(cs[i])]

FactPrefix == Chars("Fact: ")

\* f"Fact: {re.sub(...).strip().capitalize()}"
CleanKeyStripped(cs) == FactPrefix \o Capitalize(Strip(SpaceBeforeCapitals(cs)))

\* f"Fact: {re.sub(...).capitalize()}"
CleanKeyUnstripped(cs) == FactPrefix \o Capitalize(SpaceBeforeCapitals(cs))

\* the character class [^\w\s-] is what IsFileChar leaves out
IsFileChar(c) ==
    \/ IsUpper(c) \/ IsLower(c) \/ InSeq(c, DigitChars)
    \/ c = "_" \/ c = "-" \/ c \in SpaceChars

\* re.sub(r'[^\w\s-]', '', address).replace(' ', '_') + suffix
FileName(cs, suffix) ==
    LET Piece(i) == IF ~IsFileChar(cs[i]) THEN <<>>
                    ELSE IF cs[i] = " " THEN <<"_">> ELSE <<cs[i]>>
    IN  Join(<<>>, [i \in 1..Len(cs) |-> Piece(i)]) \o Chars(suffix)

(***************************************************************************)
(* Python operations the routines apply to decoded values                  *)
(***************************************************************************)
\* the value of r when it raised, F of its value otherwise
Bind(r, F(_)) == IF r.ok THEN F(r.val) ELSE r

EmptyDict == Dict(<<>>)

\* the items a for loop over x visits
IterItems(x) ==
    CASE x.t = "obj"  -> Ok([i \in 1..Len(x.v) |-> StrOf(x.v[i][1])])
      [] x.t = "list" -> Ok(x.v)
      [] x.t = "str"  -> Ok([i \in 1..Len(x.v) |-> StrOf(<<x.v[i]>>)])
      [] OTHER        -> Raise("TypeError", <<TypeName(x), "is not iterable">>)

\* x[k]
Subscript(x, k) ==
    CASE x.t = "obj" ->
            IF k.t = "str" /\ HasKey(x, k.v) THEN Ok(Item(x, k.v))
            ELSE Raise("KeyError", <<TypeName(k)>>)
      [] x.t = "list" ->
            IF k.t # "num" THEN Raise("TypeError", <<"list indices must be integers", TypeName(k)>>)
            ELSE IF k.v < Len(x.v) THEN Ok(x.v[k.v + 1])
            ELSE Raise("IndexError", <<"list index out of range">>)
      [] x.t = "str" ->
            IF k.t # "num" THEN Raise("TypeError", <<"string indices must be integers", TypeName(k)>>)
            ELSE IF k.v < Len(x.v) THEN Ok(StrOf(<<x.v[k.v + 1]>>))
            ELSE Raise("IndexError", <<"string index out of range">>)
      [] OTHER -> Raise("TypeError", <<TypeName(x), "is not subscriptable">>)

\* s in x, for a str s
Contains(x, s) ==
    CASE x.t = "obj"  -> Ok(HasKey(x, s))
      [] x.t = "list" -> Ok(\E i \in 1..Len(x.v) : x.v[i] = StrOf(s))
      [] x.t = "str"  ->
            Ok(\E i \in 1..Len(x.v) :
                  i + Len(s) - 1 <= Len(x.v) /\ SubSeq(x.v, i, i + Len(s) - 1) = s)
      [] OTHER -> Raise("TypeError", <<TypeName(x), "is not iterable">>)

\* val is not None and val != [] and val != {}
NotEmpty(val) == val # None /\ val # List(<<>>) /\ val # EmptyDict

(***************************************************************************)
(* Steps 1 and 2: the cache container and the property record              *)
(***************************************************************************)
Scripts == {"scrapeZillow5", "Zillowscrape2", "zillowtoexcel"}

\* data.get("props", {}).get("pageProps", {})
PageProps(d) ==
    Bind(Get(d, "props", EmptyDict), LAMBDA x : Get(x, "pageProps", EmptyDict))

\* x["componentProps"]["gdpClientCache"]: a missing key raises
CacheStrStrict(x) ==
    Bind(Subscript(x, Str("componentProps")), LAMBDA y : Subscript(y, Str("gdpClientCache")))

\* x.get("componentProps", {}).get("gdpClientCache", "{}")
CacheStr(x) ==
    Bind(Get(x, "componentProps", EmptyDict), LAMBDA y : Get(y, "gdpClientCache", Str("{}")))

\* prop = cache_data[key]["property"] when "property" in cache_data[key]
\* [found, prop], or the exception
ScanEntry(cache, key) ==
    Bind(Subscript(cache, key), LAMBDA entry :
        Bind(Contains(entry, Chars("property")), LAMBDA has :
            IF has
            THEN Bind(Subscript(entry, Str("property")), LAMBDA p :
                     Ok([found |-> TRUE, prop |-> p]))
            ELSE Ok([found |-> FALSE, prop |-> None])))

\* first_key = list(cache_data.keys())[0]; cache_data[first_key].get("property", {})
FirstKeyProperty(cache) ==
    IF ~IsDict(cache) THEN Raise("AttributeError", <<TypeName(cache), "keys">>)
    ELSE IF cache.v = <<>> THEN Raise("IndexError", <<"list index out of range">>)
    ELSE Get(cache.v[1][2], "property", EmptyDict)

(***************************************************************************)
(* Steps 3 to 5: the report                                                *)
(***************************************************************************)
UrlPrefix == Chars("https://www.zillow.com")

\* "label": prop.get("key")
Metric(p, label, key) == <<Chars(label), GetOrNone(p, key)>>

\* scrapeZillow5: report = {"Address": ...}; report.update({...})
SeedScrapeZillow5(p, address) ==
    Update(<< <<Chars("Address"), address>> >>,
           << Metric(p, "Price", "price"),
              Metric(p, "Zestimate", "zestimate"),
              Metric(p, "Beds", "bedrooms"),
              Metric(p, "Baths", "bathrooms"),
              Metric(p, "Sqft", "livingAreaValue"),
              Metric(p, "Year Built", "yearBuilt"),
              Metric(p, "Home Type", "homeType"),
              <<Chars("URL"), StrOf(UrlPrefix \o PyStr(GetOrNone(p, "hdpUrl")))>> >>)

\* Zillowscrape2: report = {...}
SeedZillowscrape2(p, address) ==
    Update(<<>>,
           << <<Chars("Address"), address>>,
              Metric(p, "Price", "price"),
              Metric(p, "Zestimate", "zestimate"),
              Metric(p, "Beds", "bedrooms"),
              Metric(p, "Baths", "bathrooms"),
              Metric(p, "Sqft", "livingAreaValue"),
              Metric(p, "Year Built", "yearBuilt"),
              <<Chars("URL"), StrOf(UrlPrefix \o PyStr(GetOrNone(p, "hdpUrl")))>> >>)

\* zillowtoexcel: flat_data = {...}
SeedZillowtoexcel(p) ==
    Update(<<>>,
           << <<Chars("Address"),
                StrOf(PyStr(GetOrNone(p, "streetAddress")) \o Chars(", ")
                      \o PyStr(GetOrNone(p, "city")) \o Chars(", ")
                      \o PyStr(GetOrNone(p, "state")) \o Chars(" ")
                      \o PyStr(GetOrNone(p, "zipcode")))>>,
              Metric(p, "Price", "price"),
              Metric(p, "Zestimate", "zestimate"),
              Metric(p, "Rent Zestimate", "rentZestimate"),
              Metric(p, "Bedrooms", "bedrooms"),
              Metric(p, "Bathrooms", "bathrooms"),
              <<Chars("Living Area"),
                StrOf(PyStr(GetOrNone(p, "livingAreaValue")) \o Chars(" ")
                      \o PyStr(GetOrNone(p, "livingAreaUnitsShort")))>>,
              Metric(p, "Year Built", "yearBuilt"),
              Metric(p, "Lot Size", "lotSize"),
              Metric(p, "Days on Zillow", "daysOnZillow"),
              Metric(p, "Tax Rate (%)", "propertyTaxRate") >>)

\* the dict the routine starts the report with; prop.get raises on a non-dict
SeedReport(s, p, address) ==
    IF ~IsDict(p) THEN Raise("AttributeError", <<TypeName(p), "get">>)
    ELSE CASE s = "scrapeZillow5" -> Ok(SeedScrapeZillow5(p, address))
           [] s = "Zillowscrape2" -> Ok(SeedZillowscrape2(p, address))
           [] s = "zillowtoexcel" -> Ok(SeedZillowtoexcel(p))

\* str(i.get("text", i)) if isinstance(i, dict) else str(i)
ElementText(i) ==
    IF IsDict(i) THEN PyStr(IF HasKey(i, Chars("text")) THEN Item(i, Chars("text")) ELSE i)
    ELSE PyStr(i)

\* ", ".join([... for i in val])
JoinTexts(val) == StrOf(Join(Chars(", "), [i \in 1..Len(val.v) |-> ElementText(val.v[i])]))

\* ", ".join(value): every element has to be a str
JoinStrs(value) ==
    IF \A i \in 1..Len(value.v) : value.v[i].t = "str"
    THEN Ok(StrOf(Join(Chars(", "), [i \in 1..Len(value.v) |-> value.v[i].v])))
    ELSE LET bad == CHOOSE i \in 1..Len(value.v) :
                       /\ value.v[i].t # "str"
                       /\ \A j \in 1..(i - 1) : value.v[j].t = "str"
         IN  Raise("TypeError", <<"sequence item: expected str instance", TypeName(value.v[bad])>>)

\* the header of a resoFacts key
CleanKey(s, key) ==
    CASE s = "scrapeZillow5" -> CleanKeyStripped(key)
      [] s = "Zillowscrape2" -> CleanKeyUnstripped(key)
      [] s = "zillowtoexcel" -> FactPrefix \o key

\* one iteration of the loop over reso.items(), in scrapeZillow5 and Zillowscrape2
SweepResoItem(s, rep, key, val) ==
    IF key = Chars("otherFacts") THEN Ok(rep)
    ELSE IF NotEmpty(val)
         THEN Ok(SetItem(rep, CleanKey(s, key), IF IsList(val) THEN JoinTexts(val) ELSE val))
         ELSE Ok(rep)

\* one iteration of the loop over reso_facts.items(), in zillowtoexcel
MergeResoItem(rep, key, value) ==
    IF NotEmpty(value)
    THEN Bind(IF IsList(value) THEN JoinStrs(value) ELSE Ok(value),
              LAMBDA clean_val : Ok(SetItem(rep, CleanKey("zillowtoexcel", key), clean_val)))
    ELSE Ok(rep)

\* one iteration of the loop over other_facts
SweepOtherItem(rep, item) ==
    IF ~IsDict(item) THEN Raise("AttributeError", <<TypeName(item), "get">>)
    ELSE LET name  == GetOrNone(item, "name")
             value == GetOrNone(item, "value")
         IN  IF Truthy(name) /\ Truthy(value)
             THEN IF name.t = "str"
                  THEN Ok(SetItem(rep, CleanKeyStripped(name.v), value))
                  ELSE Raise("TypeError", <<"expected string or bytes-like object", TypeName(name)>>)
             ELSE Ok(rep)

\* df.columns = [re.sub(r'(?<!^)(?=[A-Z])', ' ', str(c)) for c in df.columns]
RenameColumns(pairs) ==
    [i \in 1..Len(pairs) |-> <<SpaceBeforeCapitals(pairs[i][1]), pairs[i][2]>>]

(***************************************************************************)
(* The routine, statement by statement                                     *)
(***************************************************************************)
\* what print writes: the fixed text of the line (without its leading emoji)
\* and what is formatted into it
Line(msg, detail) == [msg |-> msg, detail |-> detail]

NotFoundMsg(s) ==
    CASE s = "scrapeZillow5" -> "Failure: Detailed data not found."
      [] s = "Zillowscrape2" -> "No property data found."
      [] s = "zillowtoexcel" -> "No property data found in blob."

ErrorMsg(s) ==
    CASE s = "scrapeZillow5" -> "Parser Error: "
      [] s = "Zillowscrape2" -> "Parser Error: "
      [] s = "zillowtoexcel" -> "An error occurred during parsing: "

\* data = json.loads(raw_json_str)
LoadBlob ==
    /\ pc = "load_blob"
    /\ LET r == JsonLoads(raw_json_str)
       IN  IF r.ok
           THEN data' = r.val /\ pc' = "locate" /\ exc' = exc
           ELSE data' = data /\ pc' = "except" /\ exc' = r.exc
    /\ UNCHANGED <<script, raw_json_str, input_address, page_props, cache_str, cache_data,
                   scan, prop, report, reso, reso_i, other_facts, other_i, stdout, written>>

\* page_props = ...; cache_str = ...   (zillowtoexcel reads componentProps off data)
LocateCache ==
    /\ pc = "locate"
    /\ LET pp == IF script = "zillowtoexcel" THEN Ok(page_props) ELSE PageProps(data)
           cs == IF script = "zillowtoexcel" THEN CacheStr(data)
                 ELSE Bind(pp, LAMBDA x : CacheStr(x))
       IN  /\ page_props' = IF pp.ok THEN pp.val ELSE page_props
           /\ IF cs.ok
              THEN cache_str' = cs.val /\ pc' = "load_cache" /\ exc' = exc
              ELSE cache_str' = cache_str /\ pc' = "except" /\ exc' = cs.exc
    /\ UNCHANGED <<script, raw_json_str, input_address, data, cache_data, scan, prop,
                   report, reso, reso_i, other_facts, other_i, stdout, written>>

\* cache_data = json.loads(cache_str), and scrapeZillow5's prop = {}
LoadCache ==
    /\ pc = "load_cache"
    /\ LET r == JsonLoads(cache_str)
       IN  IF r.ok
           THEN /\ cache_data' = r.val
                /\ exc' = exc
                /\ IF script = "scrapeZillow5"
                   THEN prop' = EmptyDict /\ pc' = "scan"
                   ELSE prop' = prop /\ pc' = "first_key"
           ELSE cache_data' = cache_data /\ prop' = prop /\ pc' = "except" /\ exc' = r.exc
    /\ UNCHANGED <<script, raw_json_str, input_address, data, page_props, cache_str, scan,
                   report, reso, reso_i, other_facts, other_i, stdout, written>>

\* the loop without its break: the last entry with a property key is taken
ScanCacheNoBreak ==
    /\ pc = "scan"
    /\ LET items == IterItems(cache_data)
       IN  IF ~items.ok
           THEN pc' = "except" /\ exc' = items.exc /\ UNCHANGED <<scan, prop>>
           ELSE IF scan = Len(items.val)
           THEN pc' = "fallback" /\ UNCHANGED <<scan, prop, exc>>
           ELSE LET r == ScanEntry(cache_data, items.val[scan + 1])
                IN  /\ scan' = scan + 1
                    /\ IF ~r.ok THEN pc' = "except" /\ exc' = r.exc /\ prop' = prop
                       ELSE /\ pc' = "scan" /\ exc' = exc
                            /\ prop' = IF r.val.found THEN r.val.prop ELSE prop
    /\ UNCHANGED <<script, raw_json_str, input_address, data, page_props, cache_str,
                   cache_data, report, reso, reso_i, other_facts, other_i, stdout, written>>

\* scrapeZillow5: one turn of  for key in cache_data: if "property" in ...: ...; break
ScanCache ==
    /\ pc = "scan"
    /\ LET items == IterItems(cache_data)
       IN  IF ~items.ok
           THEN pc' = "except" /\ exc' = items.exc /\ UNCHANGED <<scan, prop>>
           ELSE IF scan = Len(items.val)
           THEN pc' = "fallback" /\ UNCHANGED <<scan, prop, exc>>
           ELSE LET r == ScanEntry(cache_data, items.val[scan + 1])
                IN  /\ scan' = scan + 1
                    /\ IF ~r.ok THEN pc' = "except" /\ exc' = r.exc /\ prop' = prop
                       ELSE IF r.val.found
                       THEN pc' = "fallback" /\ prop' = r.val.prop /\ exc' = exc
                       ELSE pc' = "scan" /\ prop' = prop /\ exc' = exc
    /\ UNCHANGED <<script, raw_json_str, input_address, data, page_props, cache_str,
                   cache_data, report, reso, reso_i, other_facts, other_i, stdout, written>>

\* the step without its assignment
FallbackSkipped ==
    /\ pc = "fallback"
    /\ pc' = "check"
    /\ UNCHANGED <<script, raw_json_str, input_address, data, page_props, cache_str,
                   cache_data, scan, prop, report, reso, reso_i, other_facts, other_i,
                   exc, stdout, written>>

\* scrapeZillow5: if not prop: prop = page_props.get("property", {})
FallbackProperty ==
    /\ pc = "fallback"
    /\ IF Truthy(prop)
       THEN pc' = "check" /\ UNCHANGED <<prop, exc>>
       ELSE LET r == Get(page_props, "property", EmptyDict)
            IN  IF r.ok
                THEN prop' = r.val /\ pc' = "check" /\ exc' = exc
                ELSE prop' = prop /\ pc' = "except" /\ exc' = r.exc
    /\ UNCHANGED <<script, raw_json_str, input_address, data, page_props, cache_str,
                   cache_data, scan, report, reso, reso_i, other_facts, other_i, stdout,
                   written>>

\* Zillowscrape2, zillowtoexcel: first_key = ...; prop = cache_data[first_key].get(...)
FirstKey ==
    /\ pc = "first_key"
    /\ LET r == FirstKeyProperty(cache_data)
       IN  IF r.ok
           THEN prop' = r.val /\ pc' = "check" /\ exc' = exc
           ELSE prop' = prop /\ pc' = "except" /\ exc' = r.exc
    /\ UNCHANGED <<script, raw_json_str, input_address, data, page_props, cache_str,
                   cache_data, scan, report, reso, reso_i, other_facts, other_i, stdout,
                   written>>

\* if not prop: print(...); return
CheckProperty ==
    /\ pc = "check"
    /\ IF Truthy(prop)
       THEN pc' = "seed" /\ stdout' = stdout
       ELSE pc' = "done" /\ stdout' = Append(stdout, Line(NotFoundMsg(script), <<>>))
    /\ UNCHANGED <<script, raw_json_str, input_address, data, page_props, cache_str,
                   cache_data, scan, prop, report, reso, reso_i, other_facts, other_i,
                   exc, written>>

\* report = {...} (and report.update({...})); reso = prop.get("resoFacts", {})
Seed ==
    /\ pc = "seed"
    /\ LET r == SeedReport(script, prop, input_address)
       IN  IF r.ok
           THEN /\ report' = r.val
                /\ reso' = Get(prop, "resoFacts", EmptyDict).val
                /\ pc' = "sweep_reso"
                /\ exc' = exc
           ELSE report' = report /\ reso' = reso /\ pc' = "except" /\ exc' = r.exc
    /\ UNCHANGED <<script, raw_json_str, input_address, data, page_props, cache_str,
                   cache_data, scan, prop, reso_i, other_facts, other_i, stdout, written>>

\* one turn of  for key, val in reso.items(): ...
\* and, the loop over, other_facts = reso.get("otherFacts", [])
SweepReso ==
    /\ pc = "sweep_reso"
    /\ IF ~IsDict(reso)
       THEN /\ pc' = "except"
            /\ exc' = Raise("AttributeError", <<TypeName(reso), "items">>).exc
            /\ UNCHANGED <<report, reso_i, other_facts>>
       ELSE IF reso_i = Len(reso.v)
       THEN /\ UNCHANGED <<report, reso_i, exc>>
            /\ IF script = "zillowtoexcel"
               THEN pc' = "save" /\ other_facts' = other_facts
               ELSE pc' = "sweep_other"
                    /\ other_facts' = Get(reso, "otherFacts", List(<<>>)).val
       ELSE LET key == reso.v[reso_i + 1][1]
                val == reso.v[reso_i + 1][2]
                r   == IF script = "zillowtoexcel" THEN MergeResoItem(report, key, val)
                       ELSE SweepResoItem(script, report, key, val)
            IN  /\ reso_i' = reso_i + 1
                /\ other_facts' = other_facts
                /\ IF r.ok
                   THEN report' = r.val /\ pc' = "sweep_reso" /\ exc' = exc
                   ELSE report' = report /\ pc' = "except" /\ exc' = r.exc
    /\ UNCHANGED <<script, raw_json_str, input_address, data, page_props, cache_str,
                   cache_data, scan, prop, reso, other_i, stdout, written>>

\* SweepOther with an element that raises skipped over
SweepOtherSkipsErrors ==
    /\ pc = "sweep_other"
    /\ LET items == IterItems(other_facts)
       IN  IF ~items.ok
           THEN pc' = "save" /\ UNCHANGED <<report, other_i, exc>>
           ELSE IF other_i = Len(items.val)
           THEN pc' = "save" /\ UNCHANGED <<report, other_i, exc>>
           ELSE LET r == SweepOtherItem(report, items.val[other_i + 1])
                IN  /\ other_i' = other_i + 1
                    /\ pc' = "sweep_other" /\ exc' = exc
                    /\ report' = IF r.ok THEN r.val ELSE report
    /\ UNCHANGED <<script, raw_json_str, input_address, data, page_props, cache_str,
                   cache_data, scan, prop, reso, reso_i, other_facts, stdout, written>>

\* scrapeZillow5, Zillowscrape2: one turn of  for item in other_facts: ...
SweepOther ==
    /\ pc = "sweep_other"
    /\ LET items == IterItems(other_facts)
       IN  IF ~items.ok
           THEN pc' = "except" /\ exc' = items.exc /\ UNCHANGED <<report, other_i>>
           ELSE IF other_i = Len(items.val)
           THEN pc' = "save" /\ UNCHANGED <<report, other_i, exc>>
           ELSE LET r == SweepOtherItem(report, items.val[other_i + 1])
                IN  /\ other_i' = other_i + 1
                    /\ IF r.ok
                       THEN report' = r.val /\ pc' = "sweep_other" /\ exc' = exc
                       ELSE report' = report /\ pc' = "except" /\ exc' = r.exc
    /\ UNCHANGED <<script, raw_json_str, input_address, data, page_props, cache_str,
                   cache_data, scan, prop, reso, reso_i, other_facts, stdout, written>>

\* the file name the row is written to
OutputFile(s, address) ==
    CASE s = "scrapeZillow5" -> FileName(address.v, "_Report.xlsx")
      [] s = "Zillowscrape2" -> FileName(address.v, "_Comprehensive.xlsx")
      [] s = "zillowtoexcel" -> Chars("Property_Data.xlsx")

\* the lines printed after the row is written
SuccessLines(s, rep, file) ==
    CASE s = "scrapeZillow5" -> <<Line("SUCCESS: Data saved to ", file)>>
      [] s = "Zillowscrape2" ->
            <<Line("SUCCESS: ",
                   Numeral(Len(rep)) \o Chars(" facts parsed and saved to ") \o file)>>
      [] s = "zillowtoexcel" ->
            <<Line("--- SUCCESS ---", <<>>), Line("Data exported to ", file)>>

\* the columns of pd.DataFrame([report]) as to_excel receives them
Columns(s, rep) == IF s = "zillowtoexcel" THEN RenameColumns(rep) ELSE rep

\* df = pd.DataFrame([report]); df.to_excel(filename, index=False); print(...)
Save ==
    /\ pc = "save"
    /\ LET file == OutputFile(script, input_address)
       IN  /\ written' = Append(written, [file |-> file, row |-> Columns(script, report)])
           /\ stdout' = stdout \o SuccessLines(script, report, file)
    /\ pc' = "done"
    /\ UNCHANGED <<script, raw_json_str, input_address, data, page_props, cache_str,
                   cache_data, scan, prop, report, reso, reso_i, other_facts, other_i, exc>>

\* a handler that lets the exception go on to the caller
ExceptReraises ==
    /\ pc = "except"
    /\ pc' = "done"
    /\ UNCHANGED <<script, raw_json_str, input_address, data, page_props, cache_str,
                   cache_data, scan, prop, report, reso, reso_i, other_facts, other_i,
                   exc, stdout, written>>

\* except Exception as e: print(f"... {e}")
Except ==
    /\ pc = "except"
    /\ stdout' = Append(stdout, Line(ErrorMsg(script), exc.arg))
    /\ exc' = NoExc
    /\ pc' = "done"
    /\ UNCHANGED <<script, raw_json_str, input_address, data, page_props, cache_str,
                   cache_data, scan, prop, report, reso, reso_i, other_facts, other_i,
                   written>>

Next ==
    \/ LoadBlob
    \/ LocateCache
    \/ LoadCache
    \/ ScanCache
    \/ FallbackProperty
    \/ FirstKey
    \/ CheckProperty
    \/ Seed
    \/ SweepReso
    \/ SweepOther
    \/ Save
    \/ Except

(***************************************************************************)
(* The arguments the routine is run on                                     *)
(***************************************************************************)
MaxCache == 2       \* entries of the cache container
MaxReso == 2        \* attributes of resoFacts
MaxOther == 2       \* elements of otherFacts

\* the sequences over S of length at most n
SeqsUpTo(S, n) == UNION {[1..k -> S] : k \in 0..n}

\* a key with its value, or nothing when the key is left out
Opt(k, v) == IF v = Unset THEN <<>> ELSE << <<Chars(k), v>> >>

TheAddress == Str("4210 SW 6th Ave, Ocala, FL 34471")

\* the keys the routines copy, in the order the page lists them
BaseFields ==
    << <<"streetAddress", Str("4210 SW 6th Ave")>>,
       <<"city", Str("Ocala")>>,
       <<"state", Str("FL")>>,
       <<"zipcode", Str("34471")>>,
       <<"price", Num(250000)>>,
       <<"zestimate", Num(0)>>,
       <<"bedrooms", Num(3)>>,
       <<"bathrooms", Num(2)>>,
       <<"livingAreaValue", Num(1500)>>,
       <<"yearBuilt", Num(1995)>>,
       <<"homeType", Str("SINGLE_FAMILY")>>,
       <<"hdpUrl", Str("/homedetails/1_zpid/")>> >>

MetricKeys == {"price", "zestimate", "bedrooms", "bathrooms", "livingAreaValue",
               "yearBuilt", "homeType", "hdpUrl"}

\* a property record: the base fields without those in absent, with null for
\* those in null, and resoFacts when given
MkProp(absent, null, resoFacts) ==
    LET Field(i) == IF BaseFields[i][1] \in absent THEN <<>>
                    ELSE IF BaseFields[i][1] \in null
                         THEN << <<Chars(BaseFields[i][1]), None>> >>
                         ELSE << <<Chars(BaseFields[i][1]), BaseFields[i][2]>> >>
    IN  Dict(Join(<<>>, [i \in 1..Len(BaseFields) |-> Field(i)]) \o Opt("resoFacts", resoFacts))

\* resoFacts: attributes, then otherFacts when given
MkReso(attrs, otherFacts) == Dict(attrs \o Opt("otherFacts", otherFacts))

TextItem(s) == Dict(<< <<Chars("text"), Str(s)>> >>)

ResoKeys == {Chars("roofType"), Chars("RoofType"), Chars("sewer")}

ResoVals ==
    { None, List(<<>>), EmptyDict, Num(0), Str("Shingle"),
      List(<<Str("Tile"), Str("Carpet")>>),
      List(<<TextItem("Attached Garage"), TextItem("Driveway")>>),
      List(<<Num(2), Dict(<< <<Chars("id"), Num(1)>> >>)>>) }

\* the values that are combined with one another
CommonVals ==
    { None, Str("Shingle"),
      List(<<Str("Tile"), Str("Carpet")>>),
      List(<<TextItem("Attached Garage"), TextItem("Driveway")>>) }

\* attribute lists with no key twice: the common values in every combination,
\* every value on its own
ResoAttrs ==
    { a \in SeqsUpTo(ResoKeys \X CommonVals, MaxReso) :
        \A i, j \in 1..Len(a) : i # j => a[i][1] # a[j][1] }
    \cup { << <<k, v>> >> : k \in ResoKeys, v \in ResoVals }

Fact(name, value) == Dict(Opt("name", name) \o Opt("value", value))

OtherItems ==
    { Fact(Str("RoofType"), Str("Slate")),
      Fact(Str("sewer"), Str("Septic")),
      Fact(Str("sewer"), Num(0)),
      Fact(Str("sewer"), Bool(FALSE)),
      Fact(Str("sewer"), Str("")),
      Fact(Str("sewer"), None),
      Fact(Unset, Str("Septic")),
      Fact(Str("sewer"), Unset),
      Fact(Num(1), Str("Septic")),
      Str("x") }

\* the elements that are combined with one another
CommonItems ==
    { Fact(Str("RoofType"), Str("Slate")),
      Fact(Str("sewer"), Str("Septic")),
      Fact(Str("sewer"), Num(0)),
      Fact(Unset, Str("Septic")),
      Str("x") }

\* otherFacts: the common elements in every combination, every element on its own
OtherLists ==
    {List(l) : l \in SeqsUpTo(CommonItems, MaxOther)}
    \cup {List(<<f>>) : f \in OtherItems}

TransformKeys ==
    { Chars("yearBuilt"), Chars("livingAreaValue"), Chars("RoadSurfaceType"),
      Chars("ABC"), Chars(" flooring"), Chars("lot Size ") }

\* the property records the report is built from
Props ==
    \* each metric missing or null in turn, all present, all missing
    {MkProp({k}, {}, Unset) : k \in MetricKeys}
    \cup {MkProp({}, {k}, Unset) : k \in MetricKeys}
    \cup {MkProp({}, {}, Unset), MkProp(MetricKeys, {}, Unset), MkProp({}, {}, None),
          Str("x"), Num(1)}
    \* resoFacts attributes, alone and with an otherFacts element of the same header
    \cup {MkProp({}, {}, MkReso(a, o)) :
            a \in ResoAttrs, o \in {Unset, List(<<Fact(Str("RoofType"), Str("Slate"))>>)}}
    \* otherFacts lists, alone and after an attribute
    \cup {MkProp({}, {}, MkReso(a, o)) :
            a \in {<<>>, << <<Chars("sewer"), Str("Public")>> >>},
            o \in OtherLists \cup {None}}
    \* the keys of the header examples, as an attribute and as a fact name
    \cup {MkProp({}, {}, MkReso(<< <<k, Str("Tile")>> >>, List(<<Fact(StrOf(n), Str("Wood"))>>))) :
            k \in TransformKeys, n \in TransformKeys}

\* the property of the i-th cache entry, and the one at pageProps.property
EntryProp(i) == Dict(<< <<Chars("price"), Num(100 + i)>> >>)
FallbackProp == Dict(<< <<Chars("price"), Num(999)>> >>)

EntryKinds == {"plain", "empty", "full", "number"}

Entry(kind, i) ==
    CASE kind = "plain"  -> Dict(<< <<Chars("zpid"), Num(i)>> >>)
      [] kind = "empty"  -> Dict(<< <<Chars("property"), EmptyDict>> >>)
      [] kind = "full"   -> Dict(<< <<Chars("property"), EntryProp(i)>> >>)
      [] kind = "number" -> Num(7)

\* a cache container: the keys are generated names
MkCache(kinds) ==
    Dict([i \in 1..Len(kinds) |-> <<Chars("k") \o Numeral(i), Entry(kinds[i], i)>>])

Caches == {MkCache(k) : k \in SeqsUpTo(EntryKinds, MaxCache)} \cup {Num(5), List(<<>>)}

Garbage == Str("{not json")

\* componentProps: missing, null, without the cache, with a cache that does
\* not decode, with a cache
ComponentProps ==
    {Unset, None, EmptyDict}
    \cup {Dict(Opt("gdpClientCache", g)) : g \in {Garbage, None} \cup {Text(c) : c \in Caches}}

Fallbacks == {Unset, EmptyDict, FallbackProp}

\* the decoded blob around componentProps cp and pageProps.property fb
NextData(cp, fb) ==
    Dict(<< <<Chars("props"),
              Dict(<< <<Chars("pageProps"),
                        Dict(Opt("componentProps", cp) \o Opt("property", fb))>> >>)>> >>)

\* the same with componentProps repeated at the top, where zillowtoexcel reads it
WithTop(doc, cp) == Dict(doc.v \o Opt("componentProps", cp))

Documents ==
    \* the chain broken at each link, and the cache container in each shape
    { EmptyDict, Num(5), Dict(Opt("props", EmptyDict)), Dict(Opt("props", None)) }
    \cup {NextData(cp, fb) : cp \in ComponentProps, fb \in Fallbacks}
    \cup {WithTop(EmptyDict, cp) : cp \in ComponentProps}
    \* one cache entry holding each property record
    \cup { LET cp == Dict(Opt("gdpClientCache",
                              Text(Dict(<< <<Chars("k1"), Dict(Opt("property", p))>> >>))))
           IN  WithTop(NextData(cp, Unset), cp) : p \in Props }

Blobs == {Garbage} \cup {Text(d) : d \in Documents}

Init ==
    /\ script \in Scripts
    /\ raw_json_str \in Blobs
    /\ input_address = IF script = "zillowtoexcel" THEN Unset ELSE TheAddress
    /\ pc = "load_blob"
    /\ data = Unset
    /\ page_props = Unset
    /\ cache_str = Unset
    /\ cache_data = Unset
    /\ scan = 0
    /\ prop = Unset
    /\ report = <<>>
    /\ reso = Unset
    /\ reso_i = 0
    /\ other_facts = Unset
    /\ other_i = 0
    /\ exc = NoExc
    /\ stdout = <<>>
    /\ written = <<>>

Spec == Init /\ [][Next]_vars

(***************************************************************************)
(* Properties                                                              *)
(***************************************************************************)
Done == pc = "done"

\* the document the blob decodes to, when it decodes
Decodes == JsonLoads(raw_json_str).ok
Document == JsonLoads(raw_json_str).val

\* a row was handed to to_excel
Wrote == written # <<>>
Row == written[1].row

IsFactColumn(label) ==
    Len(label) >= Len(FactPrefix) /\ SubSeq(label, 1, Len(FactPrefix)) = FactPrefix

HasColumn(row, label) == \E i \in 1..Len(row) : row[i][1] = label
ColumnValue(row, label) == row[CHOOSE i \in 1..Len(row) : row[i][1] = label][2]

\* the resoFacts attributes the sweep stores: not otherFacts, not None, [] or {}
StoredAttrs ==
    IF IsDict(reso)
    THEN {i \in 1..Len(reso.v) : reso.v[i][1] # Chars("otherFacts") /\ NotEmpty(reso.v[i][2])}
    ELSE {}

\* the otherFacts elements the sweep stores, by what the code tests
StoredFacts ==
    IF IsList(other_facts)
    THEN {i \in 1..Len(other_facts.v) :
            /\ IsDict(other_facts.v[i])
            /\ Truthy(GetOrNone(other_facts.v[i], "name"))
            /\ Truthy(GetOrNone(other_facts.v[i], "value"))}
    ELSE {}

FixedMetrics ==
    << <<"Price", "price">>, <<"Zestimate", "zestimate">>, <<"Beds", "bedrooms">>,
       <<"Baths", "bathrooms">>, <<"Sqft", "livingAreaValue">>,
       <<"Year Built", "yearBuilt">>, <<"Home Type", "homeType">>, <<"URL", "hdpUrl">> >>

\* C1: in the row that scrapeZillow5 or Zillowscrape2 writes, a fixed metric
\* whose source key is missing or null in the property record has no column
C1_AbsentMetricHasNoColumn ==
    (Wrote /\ script \in {"scrapeZillow5", "Zillowscrape2"}) =>
        \A i \in 1..Len(FixedMetrics) :
            GetOrNone(prop, FixedMetrics[i][2]) = None
                => ~HasColumn(Row, Chars(FixedMetrics[i][1]))

\* the transform as the claim words it: a space before each upper-case letter
\* but the first, the first character upper-cased, the rest left as they are
ClaimedTransform(cs) ==
    LET spaced == SpaceBeforeCapitals(cs)
    IN  [i \in 1..Len(spaced) |-> IF i = 1 THEN ToUpper(spaced[i]) ELSE spaced[i]]

ClaimedExamples ==
    << <<Chars("yearBuilt"), Chars("Fact: Year built")>>,
       <<Chars("livingAreaValue"), Chars("Fact: Living area Value")>>,
       <<Chars("RoadSurfaceType"), Chars("Fact: Road surface Type")>> >>

\* the fact keys of the run: stored attribute keys and stored fact names
FactKeys ==
    {reso.v[i][1] : i \in StoredAttrs}
    \cup {GetOrNone(other_facts.v[i], "name").v : i \in StoredFacts}

PythonHeaders ==
    << <<Chars("yearBuilt"), Chars("Fact: Year built")>>,
       <<Chars("livingAreaValue"), Chars("Fact: Living area value")>>,
       <<Chars("RoadSurfaceType"), Chars("Fact: Road surface type")>>,
       <<Chars("ABC"), Chars("Fact: A b c")>>,
       <<Chars(" flooring"), Chars("Fact: Flooring")>>,
       <<Chars("lot Size "), Chars("Fact: Lot  size")>>,
       <<Chars("roofType"), Chars("Fact: Roof type")>>,
       <<Chars("RoofType"), Chars("Fact: Roof type")>>,
       <<Chars("sewer"), Chars("Fact: Sewer")>> >>

\* label is "Fact: " and then key with a space in front of each upper-case
\* letter but the first, the first character in upper case and all others in
\* lower case (key without surrounding white space)
IsHeaderOf(label, key) ==
    LET Pos(i) == i + Cardinality({j \in 2..i : IsUpper(key[j])})
        body   == SubSeq(label, Len(FactPrefix) + 1, Len(label))
    IN  /\ IsFactColumn(label)
        /\ Len(body) = IF key = <<>> THEN 0 ELSE Pos(Len(key))
        /\ \A i \in 1..Len(key) :
              /\ body[Pos(i)] = IF i = 1 THEN ToUpper(key[i]) ELSE ToLower(key[i])
              /\ (i > 1 /\ IsUpper(key[i])) => body[Pos(i) - 1] = " "

Trimmed(key) == key = <<>> \/ (key[1] \notin SpaceChars /\ key[Len(key)] \notin SpaceChars)

ErrorLines == {i \in 1..Len(stdout) : stdout[i].msg = ErrorMsg(script)}
NotFoundLines == {i \in 1..Len(stdout) : stdout[i].msg = NotFoundMsg(script)}

\* both loops of the flattening have run to their end
FlattenComplete ==
    /\ IsDict(prop) /\ Truthy(prop)
    /\ IsDict(reso) /\ reso_i = Len(reso.v)
    /\ script # "zillowtoexcel" =>
          (IterItems(other_facts).ok /\ other_i = Len(IterItems(other_facts).val))

\* C3: a row is handed to the writer only by a run in which the blob and the
\* cache decoded, a property record was found and both sweeps ran to their end
\* without an exception, and it is the whole report; a run in which a step
\* raised writes no row
C3_RowOnlyAfterCompleteFlatten ==
    /\ Len(written) <= 1
    /\ Wrote =>
          /\ Done /\ exc = NoExc
          /\ ErrorLines = {} /\ NotFoundLines = {}
          /\ Decodes /\ data = Document
          /\ JsonLoads(cache_str).ok /\ cache_data = JsonLoads(cache_str).val
          /\ FlattenComplete
          /\ Row = Columns(script, report)
          /\ script # "zillowtoexcel" =>
                /\ \A i \in StoredAttrs : HasColumn(Row, CleanKey(script, reso.v[i][1]))
                /\ \A i \in StoredFacts :
                      HasColumn(Row, CleanKeyStripped(GetOrNone(other_facts.v[i], "name").v))
    /\ (pc = "except" \/ ErrorLines # {}) => ~Wrote

\* an otherFacts element that is no mapping raised after columns were stored:
\* the partly filled report went nowhere
C3_Witness ==
    /\ Done /\ ErrorLines # {} /\ ~Wrote
    /\ IsList(other_facts) /\ other_i > 0 /\ ~IsDict(other_facts.v[other_i])
    /\ \E c \in 1..Len(report) : IsFactColumn(report[c][1])

RECURSIVE LinkAbsent(_, _)
\* walking x down keys comes to a mapping that lacks the next key
LinkAbsent(x, keys) ==
    IF keys = <<>> \/ ~IsDict(x) THEN FALSE
    ELSE IF ~HasKey(x, Chars(Head(keys))) THEN TRUE
    ELSE LinkAbsent(Item(x, Chars(Head(keys))), Tail(keys))

RECURSIVE Walk(_, _)
\* the value at the end of keys, Unset when the walk does not get there
Walk(x, keys) ==
    IF keys = <<>> THEN x
    ELSE IF ~IsDict(x) \/ ~HasKey(x, Chars(Head(keys))) THEN Unset
    ELSE Walk(Item(x, Chars(Head(keys))), Tail(keys))

\* the chain each script descends
Chain(s) ==
    IF s = "zillowtoexcel" THEN <<"componentProps", "gdpClientCache">>
    ELSE <<"props", "pageProps", "componentProps", "gdpClientCache">>

\* a link of the chain is absent from the decoded blob
ChainBroken == Decodes /\ LinkAbsent(Document, Chain(script))

\* the chain is whole and ends in a string that is not JSON
CacheUndecodable ==
    /\ Decodes
    /\ Walk(Document, Chain(script)).t = "str"
    /\ ~JsonLoads(Walk(Document, Chain(script))).ok

\* the output of a run on a blob that is not JSON
ParseFailureOutputs == {<<Line(ErrorMsg(script), g.v)>> : g \in {Garbage}}

\* C4 as stated: a blob that is not JSON ends in the parser-error line with no
\* row and no exception in flight, and no run on a blob whose chain is broken,
\* whose cache does not decode or whose property is not found ends the same way
C4_ParseFailureDistinct ==
    Done =>
        /\ ~Decodes => (~Wrote /\ exc = NoExc /\ stdout \in ParseFailureOutputs)
        /\ (ChainBroken \/ CacheUndecodable \/ NotFoundLines # {})
              => stdout \notin ParseFailureOutputs

\* C4 amended: a blob that is not JSON ends in the catch-all parser-error line
\* with no row and no exception in flight; that line is not the not-found
\* line, but it is the very line a cache string with the same text ends in
C4_ParseFailureCaught ==
    /\ ~Decodes => (~Wrote /\ pc \in {"load_blob", "except", "done"})
    /\ Done =>
          /\ ~Decodes =>
                (exc = NoExc /\ stdout = <<Line(ErrorMsg(script), raw_json_str.v)>>)
          /\ NotFoundLines # {} => Decodes
          /\ CacheUndecodable =>
                stdout = <<Line(ErrorMsg(script), Walk(Document, Chain(script)).v)>>

\* the run on "{not json" is over
C4_Witness ==
    /\ Done /\ raw_json_str = Garbage
    /\ stdout = <<Line(ErrorMsg(script), Chars("{not json"))>>
    /\ ~Wrote

\* pageProps.property as the blob gives it, {} when it is not there
Fallback ==
    LET w == Walk(Document, <<"props", "pageProps", "property">>)
    IN  IF w = Unset THEN EmptyDict ELSE w

Exposes(entry) == IsDict(entry) /\ HasKey(entry, Chars("property"))

\* the cache container decoded to a mapping none of whose entries exposes property
NoEntryExposes ==
    IsDict(cache_data) /\ \A i \in 1..Len(cache_data.v) : ~Exposes(cache_data.v[i][2])

\* C6 as stated, for scrapeZillow5 and a container of mappings: a cache
\* container with no entry exposing property (the empty one too) ends in the
\* not-found line and no row
C6_NoPropertyNotFound ==
    (/\ Done /\ script = "scrapeZillow5" /\ NoEntryExposes
     /\ \A i \in 1..Len(cache_data.v) : IsDict(cache_data.v[i][2]))
    => (stdout = <<Line(NotFoundMsg(script), <<>>)>> /\ ~Wrote)

\* C6 amended: when the cache container is a mapping of mappings none of which
\* has a property key, scrapeZillow5 takes pageProps.property: not empty, the
\* row is built from it; absent or empty, the not-found line and no row.
\* Zillowscrape2 and zillowtoexcel look at the first entry only: the not-found
\* line and no row, or, on the empty container, the catch-all error line
\* (list index out of range) and no row.
C6_NoPropertyFallsBack ==
    (Done /\ NoEntryExposes /\ \A i \in 1..Len(cache_data.v) : IsDict(cache_data.v[i][2])) =>
        IF script = "scrapeZillow5"
        THEN IF Truthy(Fallback)
             THEN /\ prop = Fallback /\ NotFoundLines = {}
                  /\ Wrote \/ ErrorLines # {}
                  /\ Wrote => ColumnValue(Row, Chars("Price")) = GetOrNone(Fallback, "price")
             ELSE stdout = <<Line(NotFoundMsg(script), <<>>)>> /\ ~Wrote
        ELSE /\ ~Wrote
             /\ stdout = IF cache_data.v = <<>>
                         THEN <<Line(ErrorMsg(script), <<"list index out of range">>)>>
                         ELSE <<Line(NotFoundMsg(script), <<>>)>>

\* scrapeZillow5 wrote a row from pageProps.property after a scan of entries
\* without property
C6_Witness ==
    /\ script = "scrapeZillow5" /\ Done /\ NoEntryExposes /\ ~ChainBroken
    /\ Len(cache_data.v) > 1 /\ scan = Len(cache_data.v)
    /\ Wrote /\ prop = FallbackProp

\* the first entry exposing property, and whether the scan gets to it (or to
\* the end) without raising
HasMatch == \E i \in 1..Len(cache_data.v) : Exposes(cache_data.v[i][2])
FirstMatch ==
    CHOOSE i \in 1..Len(cache_data.v) :
        Exposes(cache_data.v[i][2]) /\ \A j \in 1..(i - 1) : ~Exposes(cache_data.v[j][2])
ScanEnd == IF HasMatch THEN FirstMatch ELSE Len(cache_data.v)
ScanClean == \A j \in 1..ScanEnd : IsDict(cache_data.v[j][2])
MatchProp == Item(cache_data.v[FirstMatch][2], Chars("property"))

AfterFallback == {"check", "seed", "sweep_reso", "sweep_other", "save", "except", "done"}

\* C10 as stated: scrapeZillow5 uses the property of the first entry that has
\* a property key, looks at no entry after it, and turns to pageProps.property
\* only when no entry has a property key
C10_FirstMatchUsed ==
    (script = "scrapeZillow5" /\ IsDict(cache_data) /\ ScanClean) =>
        /\ scan <= ScanEnd
        /\ (pc \in AfterFallback /\ HasMatch) => prop = MatchProp
        /\ (pc = "fallback" /\ ~Truthy(prop)) => ~HasMatch

\* C10 amended: scrapeZillow5 takes the property of the first entry, in
\* insertion order, that has a property key and looks at no entry after it;
\* it turns to pageProps.property when no entry has a property key and also
\* when the property taken is empty, and then uses pageProps.property
C10_FirstMatchOrFallback ==
    (script = "scrapeZillow5" /\ IsDict(cache_data) /\ ScanClean) =>
        /\ scan <= ScanEnd
        /\ pc = "fallback" =>
              /\ scan = ScanEnd
              /\ prop = IF HasMatch THEN MatchProp ELSE EmptyDict
        /\ pc \in AfterFallback =>
              prop = IF HasMatch /\ Truthy(MatchProp) THEN MatchProp ELSE Fallback

\* the first entry's property is empty, a later entry's is not, and the
\* record used is pageProps.property
C10_Witness ==
    /\ script = "scrapeZillow5" /\ IsDict(cache_data) /\ pc = "check"
    /\ Len(cache_data.v) > 1 /\ HasMatch /\ FirstMatch = 1 /\ MatchProp = EmptyDict
    /\ Exposes(cache_data.v[2][2])
    /\ scan = 1 /\ prop = FallbackProp

\* the headers the two sweeps store, in the order they store them
ResoHeaders ==
    LET kept == SelectSeq(reso.v, LAMBDA a : a[1] # Chars("otherFacts") /\ NotEmpty(a[2]))
    IN  [i \in 1..Len(kept) |-> CleanKey(script, kept[i][1])]
FactHeaders ==
    LET kept == SelectSeq(other_facts.v,
                          LAMBDA f : Truthy(GetOrNone(f, "name")) /\ Truthy(GetOrNone(f, "value")))
    IN  [i \in 1..Len(kept) |-> CleanKeyStripped(GetOrNone(kept[i], "name").v)]

Range(seq) == {seq[i] : i \in 1..Len(seq)}

RECURSIVE FirstOccurrences(_)
\* seq with every repetition of an earlier element dropped
FirstOccurrences(seq) ==
    IF seq = <<>> THEN <<>>
    ELSE LET front == FirstOccurrences(SubSeq(seq, 1, Len(seq) - 1))
         IN  IF seq[Len(seq)] \in Range(front) THEN front ELSE Append(front, seq[Len(seq)])

FixedHeaders ==
    << Chars("Address"), Chars("Price"), Chars("Zestimate"), Chars("Beds"), Chars("Baths"),
       Chars("Sqft"), Chars("Year Built"), Chars("Home Type"), Chars("URL") >>

\* the column holds a value the otherFacts sweep stored; the column holds a
\* value the resoFacts sweep stored
FromOtherFacts(c) == Row[c][1] \in Range(FactHeaders)
FromResoFacts(c) == Row[c][1] \in Range(ResoHeaders) /\ ~FromOtherFacts(c)

\* C7 as stated: in a row scrapeZillow5 writes, Address is first, the fixed
\* metrics follow, and no column derived from an otherFacts pair comes before
\* a column derived from a resoFacts attribute
C7_OtherFactsAfterResoFacts ==
    (Wrote /\ script = "scrapeZillow5") =>
        /\ \A c \in 1..Len(FixedHeaders) : Row[c][1] = FixedHeaders[c]
        /\ \A c, d \in 1..Len(Row) : (FromOtherFacts(c) /\ FromResoFacts(d)) => d < c

\* C7 amended: in a row scrapeZillow5 writes the columns stand in the order
\* their headers were first stored: Address, the fixed metrics, the headers of
\* the resoFacts attributes, then the headers of the otherFacts pairs that no
\* attribute had stored; an otherFacts pair whose header an attribute had
\* stored overwrites that column where it stands
C7_FirstInsertionOrder ==
    (Wrote /\ script = "scrapeZillow5") =>
        /\ [c \in 1..Len(Row) |-> Row[c][1]]
             = FirstOccurrences(FixedHeaders \o ResoHeaders \o FactHeaders)
        /\ \A c \in 1..Len(Row) :
              FromOtherFacts(c) =>
                 \E i \in StoredFacts :
                    /\ CleanKeyStripped(GetOrNone(other_facts.v[i], "name").v) = Row[c][1]
                    /\ GetOrNone(other_facts.v[i], "value") = Row[c][2]

\* a row in which a column written by the otherFacts sweep stands before a
\* column written by the resoFacts sweep
C7_Witness ==
    /\ Wrote /\ script = "scrapeZillow5"
    /\ \E c, d \in 1..Len(Row) : c < d /\ FromOtherFacts(c) /\ FromResoFacts(d)

\* what the claim has a list element contribute: the text sub-field of an
\* object, the string form of anything else (and of an object without text)
ClaimedElement(e) ==
    IF IsDict(e) /\ HasKey(e, Chars("text")) THEN PyStr(Item(e, Chars("text"))) ELSE PyStr(e)

ClaimedJoin(val) ==
    StrOf(Join(<<",", " ">>, [i \in 1..Len(val.v) |-> ClaimedElement(val.v[i])]))

\* the attribute the resoFacts loop has just been through
LastAttr == reso.v[reso_i]

\* the loop over resoFacts has just been through a stored attribute
AttrJustSwept ==
    /\ pc \in {"sweep_reso", "except"} /\ IsDict(reso) /\ reso_i > 0
    /\ LastAttr[1] # Chars("otherFacts") /\ NotEmpty(LastAttr[2])

\* C8: a resoFacts attribute that is a list is stored as its elements' strings
\* joined with ", ", any other attribute as it is
C8_ListsJoined ==
    AttrJustSwept =>
        /\ pc = "sweep_reso"
        /\ HasColumn(report, CleanKey(script, LastAttr[1]))
        /\ ColumnValue(report, CleanKey(script, LastAttr[1]))
             = IF IsList(LastAttr[2]) THEN ClaimedJoin(LastAttr[2]) ELSE LastAttr[2]

\* C8 holds of scrapeZillow5 and Zillowscrape2
C8_ListsJoinedByLaterScripts == script # "zillowtoexcel" => C8_ListsJoined

\* the otherFacts element the loop is about to go through
NextFact == other_facts.v[other_i + 1]

\* value is present and not empty
PresentValue(value) == value \notin {None, Str(""), List(<<>>), EmptyDict}

\* C9: going through a pair whose name is a string and not empty, the loop
\* stores value under "Fact: " + the header of name when value is present and
\* not empty (0 and false are), and leaves the report as it is otherwise
C9_PresentValueStored ==
    [][ ( /\ pc = "sweep_other" /\ other_i' = other_i + 1
          /\ IsList(other_facts) /\ IsDict(NextFact)
          /\ GetOrNone(NextFact, "name").t = "str"
          /\ GetOrNone(NextFact, "name").v # <<>> )
        => LET header == CleanKeyStripped(GetOrNone(NextFact, "name").v)
               value  == GetOrNone(NextFact, "value")
           IN  IF PresentValue(value)
               THEN HasColumn(report', header) /\ ColumnValue(report', header) = value
               ELSE report' = report ]_vars

\* C9 holds of the values Python takes for true
C9_TruthyValueStored ==
    [][ ( /\ pc = "sweep_other" /\ other_i' = other_i + 1
          /\ IsList(other_facts) /\ IsDict(NextFact)
          /\ GetOrNone(NextFact, "name").t = "str"
          /\ GetOrNone(NextFact, "name").v # <<>> )
        => LET header == CleanKeyStripped(GetOrNone(NextFact, "name").v)
               value  == GetOrNone(NextFact, "value")
           IN  IF Truthy(value)
               THEN HasColumn(report', header) /\ ColumnValue(report', header) = value
               ELSE report' = report ]_vars

====
